---- MODULE Spec2Model ----
(***************************************************************************)
(* Model of sdk/hooks_repository_event.go: the classification predicate    *)
(* IsValidForEventName, the termination predicate IsTerminated, the report *)
(* summarizer ToInsightReport and the passphrases built by the two webhook *)
(* secret generators.  Strings are TLA+ strings; fmt.Sprintf is string     *)
(* concatenation, strconv.Itoa and %d are decimal formatting, and          *)
(* url.PathEscape is a character-wise escape.                              *)
(***************************************************************************)
EXTENDS Integers, Sequences, FiniteSets, TLC

VARIABLES h, valid, terminated, report, m, first, second

vars == <<h, valid, terminated, report, m, first, second>>

(***************************************************************************)
(* Bounds of the model.                                                    *)
(***************************************************************************)
MaxAnalyses == 6
MaxWorkflows == 7

(***************************************************************************)
(* Constants of the package (lines 42-77).                                 *)
(***************************************************************************)
WorkflowHookEventNameWorkflowUpdate == "workflow-update"
WorkflowHookEventNameModelUpdate == "model-update"
WorkflowHookEventNamePush == "push"
WorkflowHookEventNameManual == "manual"
WorkflowHookEventNameWebHook == "webhook"
WorkflowHookEventNameWorkflowRun == "workflow-run"
WorkflowHookEventNameScheduler == "scheduler"
WorkflowHookEventNamePullRequest == "pull-request"
WorkflowHookEventTypePullRequestOpened == "opened"
WorkflowHookEventTypePullRequestReopened == "reopened"
WorkflowHookEventTypePullRequestClosed == "closed"
WorkflowHookEventTypePullRequestEdited == "edited"
WorkflowHookEventNamePullRequestComment == "pull-request-comment"
WorkflowHookEventTypePullRequestCommentCreated == "created"
WorkflowHookEventTypePullRequestCommentDeleted == "deleted"
WorkflowHookEventTypePullRequestCommentEdited == "edited"

HookEventStatusScheduled == "Scheduled"
HookEventStatusAnalysis == "Analyzing"
HookEventStatusCheckAnalysis == "CheckAnalyzing"
HookEventStatusWorkflowHooks == "WorkflowHooks"
HookEventStatusSignKey == "SignKey"
HookEventStatusGitInfo == "GitInfo"
HookEventStatusWorkflow == "Workflow"
HookEventStatusDone == "Done"
HookEventStatusError == "Error"
HookEventStatusSkipped == "Skipped"

HookEventWorkflowStatusScheduled == "Scheduled"
HookEventWorkflowStatusSkipped == "Skipped"
HookEventWorkflowStatusError == "Error"
HookEventWorkflowStatusDone == "Done"

\* The workflow-run status the report compares a dispatch status with (line
\* 218).  The constant belongs to the workflow-run status enumeration, which
\* is declared outside this file; its value is the one its name gives.
V2WorkflowRunStatusSuccess == "Success"

(***************************************************************************)
(* Input domains.                                                          *)
(***************************************************************************)
EventNames ==
  { WorkflowHookEventNameWorkflowUpdate, WorkflowHookEventNameModelUpdate,
    WorkflowHookEventNamePush, WorkflowHookEventNameManual,
    WorkflowHookEventNameWebHook, WorkflowHookEventNameWorkflowRun,
    WorkflowHookEventNameScheduler, WorkflowHookEventNamePullRequest,
    WorkflowHookEventNamePullRequestComment }

\* The empty type, every enumerated type and one type that is not enumerated.
EventTypes ==
  { "", WorkflowHookEventTypePullRequestOpened,
    WorkflowHookEventTypePullRequestReopened,
    WorkflowHookEventTypePullRequestClosed,
    WorkflowHookEventTypePullRequestEdited,
    WorkflowHookEventTypePullRequestCommentCreated,
    WorkflowHookEventTypePullRequestCommentDeleted,
    WorkflowHookEventTypePullRequestCommentEdited, "merged" }

\* Every stage constant and one string that is none of them.
EventStatuses ==
  { HookEventStatusScheduled, HookEventStatusAnalysis,
    HookEventStatusCheckAnalysis, HookEventStatusWorkflowHooks,
    HookEventStatusSignKey, HookEventStatusGitInfo, HookEventStatusWorkflow,
    HookEventStatusDone, HookEventStatusError, HookEventStatusSkipped,
    "Unknown" }

\* The stages of the events that are summarized.
ReportStatuses ==
  { HookEventStatusWorkflow, HookEventStatusDone, HookEventStatusError }

LastErrors == { "", "unable to trigger workflow" }

\* HookRepositoryEventAnalysis, the fields the report reads.
AnalysisValues ==
  { [ProjectKey |-> "PA", Status |-> "Success", Error |-> ""],
    [ProjectKey |-> "PB", Status |-> "Error", Error |-> "no right on project"] }

AnalysesLists == UNION { [1..k -> AnalysisValues] : k \in 0..MaxAnalyses }

WorkflowStatuses ==
  << HookEventWorkflowStatusScheduled, HookEventWorkflowStatusSkipped,
     HookEventWorkflowStatusError, HookEventWorkflowStatusDone >>

(***************************************************************************)
(* strconv.Itoa and the %d verb, for the non-negative numbers of the model.*)
(***************************************************************************)
Digit(d) ==
  CASE d = 0 -> "0" [] d = 1 -> "1" [] d = 2 -> "2" [] d = 3 -> "3"
    [] d = 4 -> "4" [] d = 5 -> "5" [] d = 6 -> "6" [] d = 7 -> "7"
    [] d = 8 -> "8" [] d = 9 -> "9"

RECURSIVE Itoa(_)
Itoa(n) == IF n < 10 THEN Digit(n) ELSE Itoa(n \div 10) \o Digit(n % 10)

(***************************************************************************)
(* url.PathEscape on the characters of the model's strings: letters,       *)
(* digits and '-' are kept, '/' and ' ' are percent-encoded.               *)
(***************************************************************************)
EscapeChar(c) ==
  CASE c = "/" -> "%2F"
    [] c = " " -> "%20"
    [] OTHER -> c

RECURSIVE PathEscape(_)
PathEscape(s) ==
  IF s = "" THEN "" ELSE EscapeChar(Head(s)) \o PathEscape(Tail(s))

\* HookRepositoryEventWorkflow, the fields the report reads.  The i-th
\* dispatch of a list has its own run number and run id; its status walks
\* through the dispatch statuses starting at an offset.
MkWorkflow(i, shift) ==
  [ ProjectKey |-> "PW",
    WorkflowName |-> "build",
    RunNumber |-> i + 8,
    RunID |-> "run" \o Itoa(i),
    Ref |-> "refs/heads/main",
    Status |-> WorkflowStatuses[((i + shift) % 4) + 1] ]

WorkflowLists ==
  { [i \in 1..n |-> MkWorkflow(i, s)] : n \in 0..MaxWorkflows, s \in 0..3 }

\* HookRepositoryEvent, the fields the modelled functions read.
NewEvent(name, type, status, lastError, analyses, workflows) ==
  [ UUID |-> "u-1",
    EventName |-> name,
    EventType |-> type,
    VCSServerName |-> "github",
    RepositoryName |-> "org/repo",
    Status |-> status,
    LastError |-> lastError,
    Analyses |-> analyses,
    WorkflowHooks |-> workflows ]

UIURL == "https://ui"

(***************************************************************************)
(* IsValidForEventName (lines 18-34).                                      *)
(***************************************************************************)
IsValidForEventName_Lenient(t, n) ==
  \/ t = ""
  \/ /\ n = WorkflowHookEventNamePullRequest
     /\ t \in { WorkflowHookEventTypePullRequestOpened,
                WorkflowHookEventTypePullRequestReopened,
                WorkflowHookEventTypePullRequestClosed,
                WorkflowHookEventTypePullRequestEdited }
  \/ /\ n = WorkflowHookEventNamePullRequestComment
     /\ t \in { WorkflowHookEventTypePullRequestCommentCreated,
                WorkflowHookEventTypePullRequestCommentDeleted,
                WorkflowHookEventTypePullRequestCommentEdited }

IsValidForEventName(t, n) ==
  CASE n = WorkflowHookEventNamePullRequest ->
         IF t \in { WorkflowHookEventTypePullRequestOpened,
                    WorkflowHookEventTypePullRequestReopened,
                    WorkflowHookEventTypePullRequestClosed,
                    WorkflowHookEventTypePullRequestEdited }
         THEN TRUE ELSE FALSE
    [] n = WorkflowHookEventNamePullRequestComment ->
         IF t \in { WorkflowHookEventTypePullRequestCommentCreated,
                    WorkflowHookEventTypePullRequestCommentDeleted,
                    WorkflowHookEventTypePullRequestCommentEdited }
         THEN TRUE ELSE FALSE
    [] OTHER -> t = ""

(***************************************************************************)
(* HookRepositoryEvent.IsTerminated (lines 160-162).                       *)
(***************************************************************************)
IsTerminated_NoSkipped(e) ==
  e.Status = HookEventStatusDone \/ e.Status = HookEventStatusError

IsTerminated(e) ==
  \/ e.Status = HookEventStatusDone
  \/ e.Status = HookEventStatusError
  \/ e.Status = HookEventStatusSkipped

(***************************************************************************)
(* ToInsightReport (lines 164-239).                                        *)
(***************************************************************************)
\* "%s/project/%s/explore/vcs/%s/repository/%s/settings" (lines 187, 198, 221)
SettingsHref(e, uiURL, projectKey) ==
  uiURL \o "/project/" \o projectKey \o "/explore/vcs/" \o e.VCSServerName
        \o "/repository/" \o PathEscape(e.RepositoryName) \o "/settings"

\* "%s/project/%s/run/%s" (line 219)
RunHref(uiURL, w) == uiURL \o "/project/" \o w.ProjectKey \o "/run/" \o w.RunID

\* "Event %q (%s): %s" (line 167); the event names need no escape under %q
DetailHeader(e) ==
  "Event \"" \o e.EventName \o "\" (" \o e.UUID \o "): " \o e.Status

\* the loop of lines 173-177
RECURSIVE AnalysisErrors_All(_)
AnalysisErrors_All(as) ==
  IF as = <<>> THEN ""
  ELSE ("\n\nOn project " \o Head(as).ProjectKey \o ": " \o Head(as).Error)
       \o AnalysisErrors_All(Tail(as))

RECURSIVE AnalysisErrors(_)
AnalysisErrors(as) ==
  IF as = <<>> THEN ""
  ELSE (IF Head(as).Error # ""
        THEN "\n\nOn project " \o Head(as).ProjectKey \o ": " \o Head(as).Error
        ELSE "")
       \o AnalysisErrors(Tail(as))

\* lines 167-178
Detail(e) ==
  IF e.Status # HookEventStatusDone
  THEN DetailHeader(e) \o "\n\n" \o e.LastError
  ELSE DetailHeader(e) \o AnalysisErrors(e.Analyses)

\* the item of lines 183-188 and 194-199
AnalysisData(e, uiURL, a) ==
  [ Title |-> "Analysis on " \o a.ProjectKey,
    Type |-> "LINK",
    Text |-> a.Status,
    Href |-> SettingsHref(e, uiURL, a.ProjectKey) ]

\* lines 181-207; panic tells that an element of an empty list was read
AnalysisDatas_UpTo6(e, uiURL) ==
  IF Len(e.Analyses) < 7
  THEN [ panic |-> FALSE,
         datas |-> [i \in 1..Len(e.Analyses) |->
                      AnalysisData(e, uiURL, e.Analyses[i])] ]
  ELSE [ panic |-> FALSE,
         datas |-> << AnalysisData(e, uiURL, e.Analyses[1]) >> ]

AnalysisDatas(e, uiURL) ==
  IF Len(e.Analyses) < 6
  THEN [ panic |-> FALSE,
         datas |-> [i \in 1..Len(e.Analyses) |->
                      AnalysisData(e, uiURL, e.Analyses[i])] ]
  ELSE IF Len(e.Analyses) > 0
  THEN [ panic |-> FALSE,
         datas |-> << AnalysisData(e, uiURL, e.Analyses[1]) >> ]
  ELSE [ panic |-> FALSE,
         datas |-> << [ Title |-> "Nb of Analysis triggered",
                        Type |-> "TEXT",
                        Text |-> Itoa(0),
                        Href |-> "" ] >> ]

\* the item of lines 212-223
WorkflowData(e, uiURL, w) ==
  [ Title |-> w.WorkflowName \o " #" \o Itoa(w.RunNumber),
    Type |-> "LINK",
    Text |-> w.Status,
    Href |-> IF w.Status = V2WorkflowRunStatusSuccess
             THEN RunHref(uiURL, w)
             ELSE SettingsHref(e, uiURL, w.ProjectKey) ]

\* the item of lines 227-235
AggregateData(e, uiURL) ==
  [ Title |-> "Nb of workflows triggered",
    Type |-> "LINK",
    Text |-> Itoa(Len(e.WorkflowHooks)),
    Href |-> uiURL \o "/project/" \o e.WorkflowHooks[1].ProjectKey
                   \o "/run?workflow_ref=" \o PathEscape(e.WorkflowHooks[1].Ref)
                   \o "&repository="
                   \o PathEscape(e.VCSServerName \o "/" \o e.RepositoryName) ]

\* the branch condition of line 210
PerWorkflow_AtMost7(e, datas) == Len(e.WorkflowHooks) + Len(datas) <= 7

PerWorkflow_Flipped(e, datas) == Len(e.WorkflowHooks) + Len(datas) > 7

PerWorkflow(e, datas) == Len(e.WorkflowHooks) + Len(datas) < 7

\* lines 210-237, from the items produced so far
WorkflowDatas(e, uiURL, datas) ==
  IF PerWorkflow(e, datas)
  THEN [ panic |-> FALSE,
         datas |-> datas \o [i \in 1..Len(e.WorkflowHooks) |->
                               WorkflowData(e, uiURL, e.WorkflowHooks[i])] ]
  ELSE IF Len(e.WorkflowHooks) = 0
  THEN [ panic |-> TRUE, datas |-> datas ]
  ELSE [ panic |-> FALSE, datas |-> Append(datas, AggregateData(e, uiURL)) ]

\* The value of `report` before the call.
NoReport ==
  [ called |-> FALSE, panic |-> FALSE, Title |-> "", Detail |-> "", Datas |-> <<>> ]

\* A call that panics returns no report.
ToInsightReport(e, uiURL) ==
  LET a == AnalysisDatas(e, uiURL)
      w == WorkflowDatas(e, uiURL, a.datas)
  IN IF a.panic \/ w.panic
     THEN [ called |-> TRUE, panic |-> TRUE, Title |-> "", Detail |-> "",
            Datas |-> <<>> ]
     ELSE [ called |-> TRUE, panic |-> FALSE, Title |-> "CDS",
            Detail |-> Detail(e), Datas |-> w.datas ]

(***************************************************************************)
(* The passphrases of the secret generators (lines 399 and 406).           *)
(***************************************************************************)
RepositoryPass(pkey, vcsName, repoName, uuid) ==
  pkey \o "-" \o vcsName \o "-" \o repoName \o "-" \o uuid

WorkflowPass(pkey, vcsName, repoName, workflowName, uuid) ==
  pkey \o "-" \o vcsName \o "-" \o repoName \o "-" \o workflowName \o "-" \o uuid

\* Field values over the letters and the separator.
FieldValues == { "a", "b", "a-a" }

UUIDs == { "u1" }

NoCall == [ fn |-> "none", args |-> <<>>, pass |-> "" ]

(***************************************************************************)
(* State machine.  Each specification draws the inputs of its functions in *)
(* its initial states and applies the functions to them.                   *)
(***************************************************************************)
\* The value of a result variable before and after the call.
NoResult == [ called |-> FALSE, result |-> FALSE ]

Result(b) == [ called |-> TRUE, result |-> b ]

InitEvent ==
  /\ h \in { NewEvent(n, t, s, "", <<>>, <<>>) :
               n \in EventNames, t \in EventTypes, s \in EventStatuses }
  /\ valid = NoResult
  /\ terminated = NoResult
  /\ report = NoReport
  /\ m = 0
  /\ first = NoCall
  /\ second = NoCall

InitReport ==
  /\ h \in { NewEvent(WorkflowHookEventNamePush, "", s, e, as, ws) :
               s \in ReportStatuses, e \in LastErrors,
               as \in AnalysesLists, ws \in WorkflowLists }
  /\ valid = NoResult
  /\ terminated = NoResult
  /\ report = NoReport
  /\ m = 0
  /\ first = NoCall
  /\ second = NoCall

InitSecret ==
  /\ h = NewEvent(WorkflowHookEventNamePush, "", HookEventStatusScheduled, "",
                  <<>>, <<>>)
  /\ valid = NoResult
  /\ terminated = NoResult
  /\ report = NoReport
  /\ m = 0
  /\ first = NoCall
  /\ second = NoCall

CallIsValidForEventName ==
  /\ valid = NoResult
  /\ valid' = Result(IsValidForEventName(h.EventType, h.EventName))
  /\ UNCHANGED <<h, terminated, report, m, first, second>>

CallIsTerminated ==
  /\ terminated = NoResult
  /\ terminated' = Result(IsTerminated(h))
  /\ UNCHANGED <<h, valid, report, m, first, second>>

\* m records len(report.Datas) as line 210 reads it.
CallToInsightReport ==
  /\ ~report.called
  /\ report' = ToInsightReport(h, UIURL)
  /\ m' = Len(AnalysisDatas(h, UIURL).datas)
  /\ UNCHANGED <<h, valid, terminated, first, second>>

Record(call) ==
  /\ second = NoCall
  /\ IF first = NoCall
     THEN first' = call /\ second' = second
     ELSE first' = first /\ second' = call
  /\ UNCHANGED <<h, valid, terminated, report, m>>

CallGenerateRepositoryWebHookSecret ==
  \E pkey \in FieldValues, vcsName \in FieldValues, repoName \in FieldValues,
     uuid \in UUIDs :
    Record([ fn |-> "repository",
             args |-> <<pkey, vcsName, repoName, uuid>>,
             pass |-> RepositoryPass(pkey, vcsName, repoName, uuid) ])

CallGenerateWorkflowWebHookSecret ==
  \E pkey \in FieldValues, vcsName \in FieldValues, repoName \in FieldValues,
     workflowName \in FieldValues, uuid \in UUIDs :
    Record([ fn |-> "workflow",
             args |-> <<pkey, vcsName, repoName, workflowName, uuid>>,
             pass |-> WorkflowPass(pkey, vcsName, repoName, workflowName, uuid) ])

NextEvent == CallIsValidForEventName \/ CallIsTerminated

NextReport == CallToInsightReport

NextSecret ==
  CallGenerateRepositoryWebHookSecret \/ CallGenerateWorkflowWebHookSecret

SpecEvent == InitEvent /\ [][NextEvent]_vars

SpecReport == InitReport /\ [][NextReport]_vars

SpecSecret == InitSecret /\ [][NextSecret]_vars

(***************************************************************************)
(* Properties.                                                             *)
(***************************************************************************)
\* The enumerated valid (name, type) combinations.
ValidCombinations ==
  ({"pull-request"} \X {"opened", "reopened", "closed", "edited"})
    \cup ({"pull-request-comment"} \X {"created", "deleted", "edited"})

\* C1, as stated: IsValidForEventName(name) is true if and only if the type
\* is empty or (name, type) is one of the enumerated valid combinations.
C1_ValidIffEmptyOrEnumerated ==
  valid.called =>
    (valid.result <=>
       (h.EventType = "" \/ <<h.EventName, h.EventType>> \in ValidCombinations))

\* C1, amended: IsValidForEventName(name) is true if and only if (name, type)
\* is one of the enumerated valid combinations, or the name is neither
\* pull-request nor pull-request-comment and the type is empty.
C1_ValidIffEnumeratedOrPlainEmpty ==
  valid.called =>
    (valid.result <=>
       \/ <<h.EventName, h.EventType>> \in ValidCombinations
       \/ /\ h.EventName \notin {"pull-request", "pull-request-comment"}
          /\ h.EventType = "")

\* C1, witness: a pull-request event with an empty type was judged invalid.
C1_Witness ==
  /\ valid.called
  /\ h.EventName = "pull-request"
  /\ h.EventType = ""
  /\ ~valid.result

\* C2: for an event with zero analysis outcomes the report holds exactly one
\* analysis item, of kind TEXT with text "0".
C2_ZeroAnalysesOneTextItem ==
  (report.called /\ ~report.panic /\ Len(h.Analyses) = 0) =>
    /\ m = 1
    /\ report.Datas[1].Type = "TEXT"
    /\ report.Datas[1].Text = "0"

\* C3: with 1 <= k <= 5 analysis outcomes the report holds k analysis items,
\* all LINK, in list order, the i-th titled "Analysis on <project key of the
\* i-th outcome>"; with k >= 6 it holds one analysis item, a LINK built from
\* the first outcome only.
C3_AnalysisItems ==
  (report.called /\ ~report.panic) =>
    LET k == Len(h.Analyses) IN
      /\ (1 <= k /\ k <= 5) =>
           /\ m = k
           /\ \A i \in 1..k :
                /\ report.Datas[i].Type = "LINK"
                /\ report.Datas[i].Title = "Analysis on " \o h.Analyses[i].ProjectKey
                /\ report.Datas[i].Text = h.Analyses[i].Status
      /\ k >= 6 =>
           /\ m = 1
           /\ report.Datas[1].Type = "LINK"
           /\ report.Datas[1].Title = "Analysis on " \o h.Analyses[1].ProjectKey
           /\ report.Datas[1].Text = h.Analyses[1].Status

\* C3, witness: a report of an event with six or more outcomes whose first
\* two outcomes differ, and so does the last one from the first.
C3_Witness ==
  /\ report.called
  /\ ~report.panic
  /\ Len(h.Analyses) >= 6
  /\ m = 1
  /\ h.Analyses[1].ProjectKey # h.Analyses[2].ProjectKey

DigitValue(c) ==
  CASE c = "0" -> 0 [] c = "1" -> 1 [] c = "2" -> 2 [] c = "3" -> 3
    [] c = "4" -> 4 [] c = "5" -> 5 [] c = "6" -> 6 [] c = "7" -> 7
    [] c = "8" -> 8 [] c = "9" -> 9 [] OTHER -> -1000

\* The number a decimal string denotes.
RECURSIVE ParseDecimal(_)
ParseDecimal(s) ==
  IF Len(s) = 1 THEN DigitValue(s)
  ELSE 10 * ParseDecimal(SubSeq(s, 1, Len(s) - 1))
         + DigitValue(SubSeq(s, Len(s), Len(s)))

\* s is the decimal string of the non-negative number v.
IsDecimalOf(s, v) ==
  /\ Len(s) >= 1
  /\ \A i \in 1..Len(s) : DigitValue(SubSeq(s, i, i)) >= 0
  /\ (Len(s) > 1 => SubSeq(s, 1, 1) # "0")
  /\ ParseDecimal(s) = v

\* C4: with n dispatches and m analysis items, n + m < 7 gives exactly n
\* workflow items, one per dispatch in list order; n + m >= 7 gives exactly
\* one workflow item, an aggregate whose text is the decimal string of n.
C4_WorkflowItems ==
  (report.called /\ ~report.panic) =>
    LET n == Len(h.WorkflowHooks) IN
      /\ n + m < 7 =>
           /\ Len(report.Datas) = m + n
           /\ \A j \in 1..n :
                LET d == report.Datas[m + j]
                    w == h.WorkflowHooks[j]
                    prefix == w.WorkflowName \o " #"
                IN /\ d.Text = w.Status
                   /\ Len(d.Title) > Len(prefix)
                   /\ SubSeq(d.Title, 1, Len(prefix)) = prefix
                   /\ IsDecimalOf(SubSeq(d.Title, Len(prefix) + 1, Len(d.Title)),
                                  w.RunNumber)
      /\ n + m >= 7 =>
           /\ Len(report.Datas) = m + 1
           /\ report.Datas[m + 1].Title = "Nb of workflows triggered"
           /\ IsDecimalOf(report.Datas[m + 1].Text, n)

\* C4, witness: an aggregate item at the threshold, n + m = 7 with m = 5.
C4_Witness ==
  /\ report.called
  /\ ~report.panic
  /\ m = 5
  /\ Len(h.WorkflowHooks) = 2
  /\ Len(report.Datas) = 6
  /\ report.Datas[6].Text = "2"

\* C5: in the per-dispatch branch the item of a dispatch links to the run
\* view if and only if the substate of the dispatch is Done, and to the
\* repository settings view for every other substate.
C5_RunViewIffDone ==
  (report.called /\ ~report.panic /\ Len(h.WorkflowHooks) + m < 7) =>
    \A j \in 1..Len(h.WorkflowHooks) :
      LET d == report.Datas[m + j]
          w == h.WorkflowHooks[j]
          runView == "https://ui/project/" \o w.ProjectKey \o "/run/" \o w.RunID
          settingsView == "https://ui/project/" \o w.ProjectKey
                            \o "/explore/vcs/github/repository/org%2Frepo/settings"
      IN /\ (d.Href = runView) <=> (w.Status = "Done")
         /\ w.Status # "Done" => d.Href = settingsView

\* The first line of the detail.
ExpectedHeader == "Event \"" \o h.EventName \o "\" (" \o h.UUID \o "): " \o h.Status

\* The error lines of the outcomes of a list, one after the other.
RECURSIVE ErrorLines(_)
ErrorLines(as) ==
  IF Len(as) = 0 THEN ""
  ELSE ErrorLines(SubSeq(as, 1, Len(as) - 1))
         \o "\n\nOn project " \o as[Len(as)].ProjectKey \o ": " \o as[Len(as)].Error

HasError(a) == a.Error # ""

\* C6: the detail is the header line followed, when the stage is not Done,
\* by the last error message and no analysis error, and when the stage is
\* Done, by the error text of exactly the outcomes with a non-empty error,
\* in list order, and not by the last error message; a Done event whose
\* outcomes all have empty errors has the header as its whole detail.
C6_Detail ==
  (report.called /\ ~report.panic) =>
    /\ h.Status # "Done" =>
         report.Detail = ExpectedHeader \o "\n\n" \o h.LastError
    /\ h.Status = "Done" =>
         report.Detail = ExpectedHeader \o ErrorLines(SelectSeq(h.Analyses, HasError))
    /\ (h.Status = "Done" /\ \A i \in 1..Len(h.Analyses) : h.Analyses[i].Error = "") =>
         report.Detail = ExpectedHeader

\* C6, witness: the report of a Done event with a last error message, an
\* outcome without error and an outcome with one.
C6_Witness ==
  /\ report.called
  /\ ~report.panic
  /\ h.Status = "Done"
  /\ h.LastError # ""
  /\ \E i, j \in 1..Len(h.Analyses) :
       h.Analyses[i].Error = "" /\ h.Analyses[j].Error # ""
  /\ report.Detail # ExpectedHeader

\* C7: IsTerminated() is true if and only if the stage is one of Done,
\* Error, Skipped.
C7_TerminatedIffTerminalStage ==
  terminated.called =>
    (terminated.result <=> h.Status \in {"Done", "Error", "Skipped"})

\* C7, witness: a Skipped event was found terminated.
C7_Witness ==
  /\ terminated.called
  /\ terminated.result
  /\ h.Status = "Skipped"

\* C8: the report holds at most 6 items, analysis items and workflow items
\* together.
C8_AtMostSixItems ==
  report.called => Len(report.Datas) <= 6

\* C8, witness: a report of six items, of an event with more than six
\* outcomes and dispatches together.
C8_Witness ==
  /\ report.called
  /\ ~report.panic
  /\ Len(report.Datas) = 6
  /\ Len(h.Analyses) + Len(h.WorkflowHooks) > 6

\* C9: the call never reads an element of an empty list, so it returns a
\* report for every event; in the aggregate branch the dispatch list is not
\* empty.
C9_NoIndexOutOfRange ==
  report.called =>
    /\ ~report.panic
    /\ report.Title = "CDS"
    /\ Len(h.WorkflowHooks) + m >= 7 => Len(h.WorkflowHooks) > 0

\* C9, witness: a report whose workflow item is the aggregate, which reads
\* the first dispatch.
C9_Witness ==
  /\ report.called
  /\ ~report.panic
  /\ Len(h.WorkflowHooks) + m >= 7
  /\ report.Datas[m + 1].Title = "Nb of workflows triggered"

\* C10: two calls for different targets build different passphrases, whether
\* the two calls are of the same generator or not.
C10_PassphraseIdentifiesTarget ==
  (first.fn # "none" /\ second.fn # "none") =>
    ((first.fn # second.fn \/ first.args # second.args) =>
       first.pass # second.pass)

====
